---- MODULE Spec2Model ----
(***************************************************************************)
(* AutoTrader of binance_trade_bot/auto_trader.py: the Ratio Store, the    *)
(* Threshold Initializer, the scout pass with its jumps through the bridge *)
(* coin, post-trade recalibration and the Bridge Rebalance Check.          *)
(*                                                                         *)
(* Prices and ratios are exact rationals <<n, d>> in lowest terms (d > 0); *)
(* the rounding of Python floats is not modelled.                          *)
(***************************************************************************)
EXTENDS Integers, Sequences, FiniteSets, TLC

VARIABLES
    ratio,      \* Pair.ratio of every Pair row: a rational or None
    enabled,    \* Coin.enabled of every Coin row
    balance,    \* the account's balance of every coin and of the bridge
    last,       \* the last operation run: its name, its events, how it ended
    ops         \* the number of operations run so far

vars == <<ratio, enabled, balance, last, ops>>

-----------------------------------------------------------------------------
(* Bounds of the model. *)

\* ticker prices and fill prices are 1..MaxPrice
MaxPrice == 2
\* at most this many operations are run from the initial state
MaxOps == 3
\* a balance never exceeds this many units
MaxBal == 4
\* the venue's minimum notional of every symbol, in units of the bridge
MinNotional == 2

-----------------------------------------------------------------------------
(* The data of the program. *)

\* Python's None: no ticker for a symbol, no result of an order, a ratio never set
None == <<>>

\* float(x) of an integer x, as a rational
Float(x) == <<x, 1>>

\* db.get_coins(): the tracked coins, in iteration order
Coins == <<"A", "B", "C">>

CoinSet == {Coins[i] : i \in 1..Len(Coins)}

BRIDGE == "USDT"

\* the Pair rows: one per ordered pair of distinct coins
Pairs == {p \in CoinSet \X CoinSet : p[1] # p[2]}

\* the coins whose symbol may be absent from a snapshot
Delistable == {"B"}

\* the coins whose Coin row may be disabled
Disableable == {"C"}

\* manager.get_all_market_tickers(): the snapshots it may return
Tickers ==
    {t \in [CoinSet -> {Float(p) : p \in 1..MaxPrice} \cup {None}] :
        \A c \in CoinSet : t[c] = None => c \in Delistable}

\* get_market_ticker_price_from_list(all_tickers, coin + BRIDGE)
get_market_ticker_price_from_list(all_tickers, coin) == all_tickers[coin]

\* manager.get_min_notional(coin, bridge)
get_min_notional(coin) == Float(MinNotional)

-----------------------------------------------------------------------------
(* Exact arithmetic on rationals <<n, d>>, d > 0, in lowest terms. *)

Abs(x) == IF x < 0 THEN -x ELSE x

RECURSIVE GCD(_, _)
GCD(a, b) == IF b = 0 THEN a ELSE GCD(b, a % b)

Norm(n, d) ==
    LET g == GCD(Abs(n), d)
    IN  IF n = 0 THEN <<0, 1>> ELSE <<n \div g, d \div g>>

\* a / b for positive b
RDiv(a, b) == Norm(a[1] * b[2], a[2] * b[1])

RMul(a, b) == Norm(a[1] * b[1], a[2] * b[2])

RSub(a, b) == Norm(a[1] * b[2] - b[1] * a[2], a[2] * b[2])

RLess(a, b) == a[1] * b[2] < b[1] * a[2]

Zero == <<0, 1>>

-----------------------------------------------------------------------------
(* initialize_trade_thresholds *)

\* a variant that looks at the enabled flag of the from-coin only
InitRatioFromEnabled(pair, all_tickers, en) ==
    LET from_coin_price == get_market_ticker_price_from_list(all_tickers, pair[1])
        to_coin_price == get_market_ticker_price_from_list(all_tickers, pair[2])
    IN  IF ~en[pair[1]] THEN None
        ELSE IF from_coin_price = None THEN None
        ELSE IF to_coin_price = None THEN None
        ELSE RDiv(from_coin_price, to_coin_price)

\* the body of the loop, for one Pair row whose ratio is None
InitRatio(pair, all_tickers, en) ==
    LET from_coin_price == get_market_ticker_price_from_list(all_tickers, pair[1])
        to_coin_price == get_market_ticker_price_from_list(all_tickers, pair[2])
    IN  IF ~en[pair[1]] \/ ~en[pair[2]] THEN None
        ELSE IF from_coin_price = None THEN None
        ELSE IF to_coin_price = None THEN None
        ELSE RDiv(from_coin_price, to_coin_price)

\* a variant that returns after the first Pair row it initializes
initialize_first_only(store, all_tickers, en) ==
    LET ready == {pair \in Pairs :
                    store[pair] = None /\ InitRatio(pair, all_tickers, en) # None}
        first == CHOOSE pair \in ready : TRUE
    IN  IF ready = {} THEN store
        ELSE [store EXCEPT ![first] = InitRatio(first, all_tickers, en)]

initialize_trade_thresholds(store, all_tickers, en) ==
    [pair \in Pairs |->
        IF store[pair] = None THEN InitRatio(pair, all_tickers, en)
        ELSE store[pair]]

-----------------------------------------------------------------------------
(* The venue, as one operation sees it. *)

\* what the order calls of one operation answer: orders on the symbol of
\* env.down are rejected, every buy that is accepted fills at env.fill
Envs == [down : CoinSet \cup {"-"}, fill : {Float(p) : p \in 1..MaxPrice}]

Min(a, b) == IF a < b THEN a ELSE b

\* manager.sell_alt(coin, bridge): the whole balance of coin is sold at the
\* snapshot price; None when the order is rejected
sell_alt(bal, coin, all_tickers, env) ==
    IF env.down = coin
    THEN [result |-> None, balance |-> bal]
    ELSE [result |-> <<all_tickers[coin]>>,
          balance |-> [bal EXCEPT ![coin] = 0,
                                  ![BRIDGE] = Min(MaxBal, @ + bal[coin] * all_tickers[coin][1])]]

\* manager.buy_alt(coin, bridge, all_tickers): the bridge balance buys whole
\* units of coin at the fill price; None when the order is rejected
buy_alt(bal, coin, all_tickers, env) ==
    LET quantity == bal[BRIDGE] \div env.fill[1]
    IN  IF env.down = coin \/ quantity = 0
        THEN [result |-> None, balance |-> bal]
        ELSE [result |-> <<env.fill>>,
              balance |-> [bal EXCEPT ![coin] = Min(MaxBal, @ + quantity),
                                      ![BRIDGE] = @ - quantity * env.fill[1]]]

\* db.get_pairs_from(coin): the Pair rows with from_coin = coin, in the order
\* of the coins
get_pairs_from(coin) ==
    LET all == [j \in 1..Len(Coins) |-> <<coin, Coins[j]>>]
    IN  SelectSeq(all, LAMBDA p : p[2] # coin)

-----------------------------------------------------------------------------
(* update_trade_threshold *)

\* a variant that stores the difference of the two prices, not their quotient
UpdatedRatioDifference(store, pair, current_coin_price, all_tickers) ==
    LET from_coin_price == get_market_ticker_price_from_list(all_tickers, pair[1])
    IN  IF from_coin_price = None THEN store[pair]
        ELSE RSub(from_coin_price, current_coin_price)

\* the body of the loop, for one Pair row with to_coin = current_coin
UpdatedRatio(store, pair, current_coin_price, all_tickers) ==
    LET from_coin_price == get_market_ticker_price_from_list(all_tickers, pair[1])
    IN  IF from_coin_price = None THEN store[pair]
        ELSE RDiv(from_coin_price, current_coin_price)

\* a variant that selects the Pair rows by from_coin instead of to_coin
update_trade_threshold_from(store, current_coin, current_coin_price, all_tickers) ==
    IF current_coin_price = None THEN store
    ELSE [pair \in Pairs |->
            IF pair[1] = current_coin
            THEN RDiv(get_market_ticker_price_from_list(all_tickers, pair[1]),
                      current_coin_price)
            ELSE store[pair]]

update_trade_threshold(store, current_coin, current_coin_price, all_tickers) ==
    IF current_coin_price = None THEN store
    ELSE [pair \in Pairs |->
            IF pair[2] = current_coin
            THEN UpdatedRatio(store, pair, current_coin_price, all_tickers)
            ELSE store[pair]]

-----------------------------------------------------------------------------
(* transaction_through_bridge *)

\* a variant that never sees the sell fail
SellNeverFailed(result) == FALSE

\* self.manager.sell_alt(...) is None
SellFailed(result) == result = None

\* a variant that returns True without updating the thresholds
SettledWithoutUpdate(store, to_coin, result, all_tickers) == store

\* the branch taken when the buy answered a result: the thresholds of to_coin
\* are updated against float(result["price"])
Settled(store, to_coin, result, all_tickers) ==
    update_trade_threshold(store, to_coin, result[1], all_tickers)

\* a variant that updates the thresholds against the snapshot price although
\* the buy answered None
UnsettledAtSnapshot(store, to_coin, all_tickers) ==
    update_trade_threshold(store, to_coin,
        get_market_ticker_price_from_list(all_tickers, to_coin), all_tickers)

\* the branch taken when the buy answered None: the thresholds are left alone
Unsettled(store, to_coin, all_tickers) == store

\* st is the state of the running pass: the Ratio Store, the balances, the
\* events so far and how the pass stands ("run", "return" or "raise")
transaction_through_bridge(st, pair, all_tickers, env) ==
    LET sell == sell_alt(st.balance, pair[1], all_tickers, env)
        sold == [e |-> "sell", coin |-> pair[1], result |-> sell.result,
                 by |-> "transaction_through_bridge"]
        buy == buy_alt(sell.balance, pair[2], all_tickers, env)
        bought == [e |-> "buy", coin |-> pair[2], result |-> buy.result,
                   by |-> "transaction_through_bridge"]
        updated == Settled(st.ratio, pair[2], buy.result, all_tickers)
        kept == Unsettled(st.ratio, pair[2], all_tickers)
    IN  IF SellFailed(sell.result)
        THEN [st EXCEPT !.ev = @ \o <<sold,
                    [e |-> "jump", pair |-> pair, ret |-> FALSE,
                     before |-> st.ratio, after |-> st.ratio]>>]
        ELSE IF buy.result # None
        THEN [st EXCEPT !.ratio = updated,
                        !.balance = buy.balance,
                        !.ev = @ \o <<sold, bought,
                    [e |-> "update", coin |-> pair[2], price |-> buy.result[1]],
                    [e |-> "jump", pair |-> pair, ret |-> TRUE,
                     before |-> st.ratio, after |-> updated]>>]
        ELSE [st EXCEPT !.ratio = kept,
                        !.balance = sell.balance,
                        !.ev = @ \o <<sold, bought,
                    [e |-> "jump", pair |-> pair, ret |-> FALSE,
                     before |-> st.ratio, after |-> kept]>>]

-----------------------------------------------------------------------------
(* _get_ratios *)

\* self.config.SCOUT_TRANSACTION_FEE and self.config.SCOUT_MULTIPLIER
SCOUT_TRANSACTION_FEE == <<1, 1000>>

SCOUT_MULTIPLIER == <<5, 1>>

\* a variant that does not subtract the fee
ScoreWithoutFee(coin_price, optional_coin_price, stored) ==
    RSub(RDiv(coin_price, optional_coin_price), stored)

\* the value stored in ratio_dict[pair]
Score(coin_price, optional_coin_price, stored) ==
    LET coin_opt_coin_ratio == RDiv(coin_price, optional_coin_price)
    IN  RSub(RSub(coin_opt_coin_ratio,
                  RMul(RMul(SCOUT_TRANSACTION_FEE, SCOUT_MULTIPLIER), coin_opt_coin_ratio)),
             stored)

\* the loop over pairs from index i on; ratio_dict keeps the insertion order
\* of the dict; raised is the TypeError of subtracting a ratio that is None
RECURSIVE GetRatiosLoop(_, _, _, _, _, _)
GetRatiosLoop(pairs, i, coin_price, all_tickers, store, ratio_dict) ==
    IF i > Len(pairs) THEN [ratio_dict |-> ratio_dict, raised |-> FALSE]
    ELSE
        LET pair == pairs[i]
            optional_coin_price == get_market_ticker_price_from_list(all_tickers, pair[2])
        IN  IF optional_coin_price = None
            THEN GetRatiosLoop(pairs, i + 1, coin_price, all_tickers, store, ratio_dict)
            ELSE IF store[pair] = None
            THEN [ratio_dict |-> ratio_dict, raised |-> TRUE]
            ELSE GetRatiosLoop(pairs, i + 1, coin_price, all_tickers, store,
                    Append(ratio_dict,
                        [pair |-> pair, ratio |-> store[pair], coin_price |-> coin_price,
                         optional_coin_price |-> optional_coin_price,
                         score |-> Score(coin_price, optional_coin_price, store[pair])]))

_get_ratios(coin, coin_price, all_tickers, store) ==
    GetRatiosLoop(get_pairs_from(coin), 1, coin_price, all_tickers, store, <<>>)

-----------------------------------------------------------------------------
(* scout *)

\* a variant that keeps every ratio
ViableAlways(v) == TRUE

\* v > 0
Viable(v) == RLess(Zero, v)

\* a variant that keeps the last entry with the greatest score
RECURSIVE MaxFromLast(_, _, _)
MaxFromLast(ratio_dict, i, best) ==
    IF i > Len(ratio_dict) THEN best
    ELSE MaxFromLast(ratio_dict, i + 1,
                     IF RLess(ratio_dict[i].score, best.score) THEN best ELSE ratio_dict[i])

\* max(ratio_dict, key=ratio_dict.get): the first entry with the greatest score
RECURSIVE MaxFrom(_, _, _)
MaxFrom(ratio_dict, i, best) ==
    IF i > Len(ratio_dict) THEN best
    ELSE MaxFrom(ratio_dict, i + 1,
                 IF RLess(best.score, ratio_dict[i].score) THEN ratio_dict[i] ELSE best)

best_pair(ratio_dict) == MaxFrom(ratio_dict, 2, ratio_dict[1]).pair

\* the event of one call of _get_ratios
Scouted(coin, got, by) ==
    [e |-> "ratios", coin |-> coin, ratio_dict |-> got.ratio_dict,
     raised |-> got.raised, by |-> by]

\* a variant that never skips a coin
NeverBelowMinNotional(coin, coin_price, current_coin_balance) == FALSE

\* a variant that also skips a coin worth exactly the minimum notional
AtOrBelowMinNotional(coin, coin_price, current_coin_balance) ==
    ~RLess(get_min_notional(coin), RMul(coin_price, Float(current_coin_balance)))

\* coin_price * current_coin_balance < get_min_notional(coin, bridge)
BelowMinNotional(coin, coin_price, current_coin_balance) ==
    RLess(RMul(coin_price, Float(current_coin_balance)), get_min_notional(coin))

\* the loop over db.get_coins() from index i on
RECURSIVE ScoutLoop(_, _, _, _)
ScoutLoop(state, i, all_tickers, env) ==
    IF i > Len(Coins) THEN state
    ELSE
        LET coin == Coins[i]
            current_coin_balance == state.balance[coin]
            st == [state EXCEPT !.ev = Append(@, [e |-> "balance", coin |-> coin,
                                                  value |-> current_coin_balance])]
            coin_price == get_market_ticker_price_from_list(all_tickers, coin)
            got == _get_ratios(coin, coin_price, all_tickers, st.ratio)
            ratio_dict == SelectSeq(got.ratio_dict, LAMBDA x : Viable(x.score))
            scouted == [st EXCEPT !.ev = Append(@, Scouted(coin, got, "scout"))]
        IN  IF coin_price = None
            THEN [st EXCEPT !.ev = Append(@, [e |-> "abort", coin |-> coin, by |-> "scout"]),
                            !.status = "return"]
            ELSE IF BelowMinNotional(coin, coin_price, current_coin_balance)
            THEN ScoutLoop([st EXCEPT !.ev = Append(@, [e |-> "skip", coin |-> coin])],
                           i + 1, all_tickers, env)
            ELSE IF got.raised
            THEN [scouted EXCEPT !.status = "raise"]
            ELSE IF ratio_dict # <<>>
            THEN ScoutLoop(transaction_through_bridge(scouted, best_pair(ratio_dict),
                                                      all_tickers, env),
                           i + 1, all_tickers, env)
            ELSE ScoutLoop(scouted, i + 1, all_tickers, env)

-----------------------------------------------------------------------------
(* bridge_scout *)

\* a variant that asks whether every value is positive: all(...) for any(...)
AllPositive(ratio_dict) ==
    \A k \in 1..Len(ratio_dict) : RLess(Zero, ratio_dict[k].score)

\* any(v > 0 for v in ratio_dict.values())
AnyPositive(ratio_dict) ==
    \E k \in 1..Len(ratio_dict) : RLess(Zero, ratio_dict[k].score)

\* a variant that buys whatever the bridge balance
CanBuyAlways(coin, bridge_balance) == TRUE

\* bridge_balance > get_min_notional(coin, bridge)
CanBuy(coin, bridge_balance) ==
    RLess(get_min_notional(coin), Float(bridge_balance))

\* the loop over db.get_coins() from index i on
RECURSIVE BridgeLoop(_, _, _, _, _)
BridgeLoop(st, i, bridge_balance, all_tickers, env) ==
    IF i > Len(Coins) THEN st
    ELSE
        LET coin == Coins[i]
            current_coin_price == get_market_ticker_price_from_list(all_tickers, coin)
            got == _get_ratios(coin, current_coin_price, all_tickers, st.ratio)
            scouted == [st EXCEPT !.ev = Append(@, Scouted(coin, got, "bridge_scout"))]
            buy == buy_alt(st.balance, coin, all_tickers, env)
        IN  IF current_coin_price = None
            THEN [st EXCEPT !.ev = Append(@, [e |-> "abort", coin |-> coin,
                                              by |-> "bridge_scout"])]
            ELSE IF got.raised
            THEN [scouted EXCEPT !.status = "raise"]
            ELSE IF ~AnyPositive(got.ratio_dict)
            THEN IF CanBuy(coin, bridge_balance)
                 THEN [scouted EXCEPT
                        !.balance = buy.balance,
                        !.ev = Append(@, [e |-> "buy", coin |-> coin, result |-> buy.result,
                                          by |-> "bridge_scout"])]
                 ELSE scouted
            ELSE BridgeLoop(scouted, i + 1, bridge_balance, all_tickers, env)

\* a variant that fetches no snapshot and reuses the one of the pass
bridge_scout_reusing(st, all_tickers, env) ==
    LET bridge_balance == st.balance[BRIDGE]
        entered == [st EXCEPT !.ev = Append(@, [e |-> "bridge_balance",
                                                value |-> bridge_balance])]
        left == BridgeLoop(entered, 1, bridge_balance, st.ev[1].t, env)
    IN  IF left.status = "raise" THEN left ELSE [left EXCEPT !.status = "return"]

\* all_tickers is what get_all_market_tickers() answers to bridge_scout
bridge_scout(st, all_tickers, env) ==
    LET bridge_balance == st.balance[BRIDGE]
        entered == [st EXCEPT !.ev = @ \o <<[e |-> "bridge_balance", value |-> bridge_balance],
                                            [e |-> "tickers", t |-> all_tickers]>>]
        left == BridgeLoop(entered, 1, bridge_balance, all_tickers, env)
    IN  IF left.status = "raise" THEN left ELSE [left EXCEPT !.status = "return"]

\* a variant that leaves the loop at a missing price and still runs bridge_scout
scout_breaking(st, all_tickers, later_tickers, env) ==
    LET entered == [st EXCEPT !.ev = Append(@, [e |-> "tickers", t |-> all_tickers])]
        looped == ScoutLoop(entered, 1, all_tickers, env)
    IN  IF looped.status # "raise"
        THEN bridge_scout([looped EXCEPT !.status = "run"], later_tickers, env)
        ELSE looped

\* a variant that runs bridge_scout only after a loop that called no jump
scout_unless_jumped(st, all_tickers, later_tickers, env) ==
    LET entered == [st EXCEPT !.ev = Append(@, [e |-> "tickers", t |-> all_tickers])]
        looped == ScoutLoop(entered, 1, all_tickers, env)
    IN  IF looped.status = "run" /\ \A k \in 1..Len(looped.ev) : looped.ev[k].e # "jump"
        THEN bridge_scout(looped, later_tickers, env)
        ELSE IF looped.status = "run" THEN [looped EXCEPT !.status = "return"]
        ELSE looped

\* all_tickers is the snapshot scout takes, later_tickers the one bridge_scout takes
scout(st, all_tickers, later_tickers, env) ==
    LET entered == [st EXCEPT !.ev = Append(@, [e |-> "tickers", t |-> all_tickers])]
        looped == ScoutLoop(entered, 1, all_tickers, env)
    IN  IF looped.status = "run" THEN bridge_scout(looped, later_tickers, env)
        ELSE looped

\* the snapshots the venue may answer after it answered all_tickers: only the
\* symbols that may drop out have moved
Later(all_tickers) ==
    {t \in Tickers : \A c \in CoinSet \ Delistable : t[c] = all_tickers[c]}

-----------------------------------------------------------------------------
(* The state machine. *)

\* what is kept of the operation before the last one: its name, and whether
\* the venue answered it the snapshot all_tickers
Prev(all_tickers) ==
    [op |-> last.op,
     same |-> last.ev # <<>> /\ last.ev[1].t = all_tickers]

Idle == [op |-> "none", ev |-> <<>>, status |-> "return",
         prev |-> [op |-> "none", same |-> FALSE]]

\* an account holding b units of the bridge and c units of every coin
Funded(b, c) == [x \in CoinSet \cup {BRIDGE} |-> IF x = BRIDGE THEN b ELSE c]

Init ==
    /\ ratio = [p \in Pairs |-> None]
    /\ enabled \in {en \in [CoinSet -> BOOLEAN] :
                        \A c \in CoinSet : ~en[c] => c \in Disableable}
    /\ balance \in {Funded(0, 2), Funded(3, 0)}
    /\ last = Idle
    /\ ops = 0

\* one call of initialize_trade_thresholds, the venue answering all_tickers
InitializeWith(all_tickers) ==
    /\ ratio' = initialize_trade_thresholds(ratio, all_tickers, enabled)
    /\ last' = [op |-> "initialize_trade_thresholds",
                ev |-> <<[e |-> "tickers", t |-> all_tickers]>>,
                status |-> "return", prev |-> Prev(all_tickers)]
    /\ UNCHANGED <<enabled, balance>>

\* one call of scout, the venue answering all_tickers, later_tickers and env;
\* the driver initializes the thresholds before the first pass
ScoutWith(all_tickers, later_tickers, env) ==
    /\ last.op # "none"
    /\ \E st \in {scout([ratio |-> ratio, balance |-> balance, ev |-> <<>>,
                         status |-> "run"],
                        all_tickers, later_tickers, env)} :
        /\ ratio' = st.ratio
        /\ balance' = st.balance
        /\ last' = [op |-> "scout", ev |-> st.ev, status |-> st.status,
                    prev |-> Prev(all_tickers)]
    /\ UNCHANGED enabled

Initialize ==
    /\ ops < MaxOps
    /\ \E all_tickers \in Tickers : InitializeWith(all_tickers)
    /\ ops' = ops + 1

Scout ==
    /\ ops < MaxOps
    /\ \E all_tickers \in Tickers, env \in Envs :
        \E later_tickers \in Later(all_tickers) :
            ScoutWith(all_tickers, later_tickers, env)
    /\ ops' = ops + 1

Next == Initialize \/ Scout

Spec == Init /\ [][Next]_vars

-----------------------------------------------------------------------------
(* The bot left running on a calm market: every symbol is listed, every coin *)
(* is enabled, only the price of the first coin moves, and the venue never   *)
(* rejects the orders of two passes in a row; the driver initializes the     *)
(* thresholds once and its timer then runs one scout pass after the other.   *)
(* Here ops counts the passes modulo 2.                                      *)

CalmTickers ==
    {t \in Tickers : \A c \in CoinSet :
        /\ t[c] # None
        /\ c # Coins[1] => t[c] = Float(1)}

\* what the venue may answer the pass that follows n passes
CalmEnvs(n) == {env \in Envs : n = 1 => env.down = "-"}

\* the account may also hold exactly the minimum notional, in bridge currency
CalmInit ==
    /\ ratio = [p \in Pairs |-> None]
    /\ enabled = [c \in CoinSet |-> TRUE]
    /\ balance \in {Funded(0, 2), Funded(3, 0), Funded(MinNotional, 0)}
    /\ last = Idle
    /\ ops = 0

CalmInitialize ==
    /\ last.op = "none"
    /\ \E all_tickers \in CalmTickers : InitializeWith(all_tickers)
    /\ UNCHANGED ops

CalmScout ==
    /\ \E all_tickers \in CalmTickers, env \in CalmEnvs(ops) :
        ScoutWith(all_tickers, all_tickers, env)
    /\ ops' = 1 - ops

CalmNext == CalmInitialize \/ CalmScout

\* the step of a pass, as the pass counter shows it: under CalmNext the
\* steps that flip ops are the steps of CalmScout
TimerFires == ops' = 1 - ops

\* the driver starts, and its timer keeps firing
FairSpec ==
    CalmInit /\ [][CalmNext]_vars /\ WF_vars(CalmInitialize) /\ WF_ops(TimerFires)

-----------------------------------------------------------------------------
(* Reading the events of the last operation. *)

\* the positions of the events of one kind
Kinds(ev, kind) == {k \in 1..Len(ev) : ev[k].e = kind}

InPass == last.op = "scout"

\* the snapshot the pass took when it started
PassTickers == last.ev[1].t

Jumps == Kinds(last.ev, "jump")

Last(S) == CHOOSE k \in S : \A j \in S : j <= k

\* the sell and buy events of the jump whose event is at position k: those
\* between it and the _get_ratios call that chose its pair
LegsOf(ev, k) ==
    LET from == Last({i \in Kinds(ev, "ratios") : i < k})
    IN  SelectSeq(SubSeq(ev, from + 1, k - 1), LAMBDA x : x.e \in {"sell", "buy"})

\* float(result["price"]) of the buy of a jump that returned True
FillOf(ev, k) == LegsOf(ev, k)[2].result[1]

\* the calls of _get_ratios for coin made by the callers in bys
ScoresOf(ev, coin, bys) ==
    {k \in Kinds(ev, "ratios") : ev[k].coin = coin /\ ev[k].by \in bys}

NonePositive(ev, coin, bys) ==
    \A k \in ScoresOf(ev, coin, bys) :
        \A i \in 1..Len(ev[k].ratio_dict) : ~RLess(Zero, ev[k].ratio_dict[i].score)

SomeScore(ev, coin, bys) ==
    \E k \in ScoresOf(ev, coin, bys) : ev[k].ratio_dict # <<>>

JumpsFrom(ev, coin) == {k \in Kinds(ev, "jump") : ev[k].pair[1] = coin}

\* the jumps into coin that returned True
JumpsInto(ev, coin) == {k \in Kinds(ev, "jump") : ev[k].pair[2] = coin /\ ev[k].ret}

BridgeBuys(ev) == {k \in Kinds(ev, "buy") : ev[k].by = "bridge_scout"}

IsPositiveRatio(r) == r[1] > 0 /\ r[2] > 0

-----------------------------------------------------------------------------
(* C1 *)

\* C1: after any sequence of initialize_trade_thresholds and scout calls,
\* and after every jump inside a pass, every stored ratio is None or a
\* rational strictly greater than 0.
C1_RatioUnsetOrPositive ==
    /\ \A p \in Pairs : ratio[p] = None \/ IsPositiveRatio(ratio[p])
    /\ \A k \in Jumps : \A p \in Pairs :
        last.ev[k].after[p] = None \/ IsPositiveRatio(last.ev[k].after[p])

\* a pass that follows a pass and in which a jump recalibrated the store
C1_Witness ==
    /\ InPass
    /\ last.prev.op = "scout"
    /\ \E k \in Jumps : last.ev[k].ret /\ last.ev[k].after # last.ev[k].before

-----------------------------------------------------------------------------
(* C2 *)

\* C2 as stated: after a jump from A to B that returned True, every pair
\* with to = B holds the snapshot price of its from-coin divided by the fill
\* price, and every pair with to # B holds what it held before the jump.
C2_Original ==
    InPass =>
        \A k \in Jumps : last.ev[k].ret =>
            \A p \in Pairs :
                IF p[2] = last.ev[k].pair[2]
                THEN /\ PassTickers[p[1]] # None
                     /\ last.ev[k].after[p] = RDiv(PassTickers[p[1]], FillOf(last.ev, k))
                ELSE last.ev[k].after[p] = last.ev[k].before[p]

\* C2 as amended: after a jump from A to B that returned True, every pair
\* with to = B whose from-coin is priced in the pass snapshot holds that
\* price divided by the fill price; every pair with to = B whose from-coin
\* is not priced, and every pair with to # B, holds what it held before.
C2_Recalibrated ==
    InPass =>
        \A k \in Jumps : last.ev[k].ret =>
            \A p \in Pairs :
                IF p[2] = last.ev[k].pair[2] /\ PassTickers[p[1]] # None
                THEN last.ev[k].after[p] = RDiv(PassTickers[p[1]], FillOf(last.ev, k))
                ELSE last.ev[k].after[p] = last.ev[k].before[p]

\* a jump that returned True while the from-coin of a pair into its target
\* was not priced, and that changed another pair into its target
C2_Witness ==
    /\ InPass
    /\ \E k \in Jumps :
        /\ last.ev[k].ret
        /\ \E p, q \in Pairs :
            /\ p[2] = last.ev[k].pair[2] /\ PassTickers[p[1]] = None
            /\ q[2] = last.ev[k].pair[2] /\ last.ev[k].after[q] # last.ev[k].before[q]

-----------------------------------------------------------------------------
(* C3 *)

\* C3 as stated: if scores were computed for X in the pass and none of them
\* is positive, the pass makes no jump from X and every pair from X holds
\* at the end of the pass what it held at its start.
C3_Original ==
    [][last'.op = "scout" =>
        \A X \in CoinSet :
            (/\ SomeScore(last'.ev, X, {"scout", "bridge_scout"})
             /\ NonePositive(last'.ev, X, {"scout", "bridge_scout"}))
            => /\ JumpsFrom(last'.ev, X) = {}
               /\ \A p \in Pairs : p[1] = X => ratio'[p] = ratio[p]]_vars

\* C3 as amended: if no score computed for X in the per-asset loop is
\* positive, the pass makes no jump from X, and every pair from X to a coin
\* that no jump of the pass acquired holds at the end what it held at the
\* start (a pair X -> Y is recalibrated when another asset jumps into Y).
C3_NoJumpNoWrite ==
    [][last'.op = "scout" =>
        \A X \in CoinSet :
            NonePositive(last'.ev, X, {"scout"})
            => /\ JumpsFrom(last'.ev, X) = {}
               /\ \A p \in Pairs :
                    (p[1] = X /\ JumpsInto(last'.ev, p[2]) = {}) => ratio'[p] = ratio[p]]_vars

\* a pass in which X was scored without a positive score and the jump of
\* another asset into Y changed the ratio of X -> Y
C3_Witness ==
    /\ InPass
    /\ \E X, Y \in CoinSet :
        /\ X # Y
        /\ SomeScore(last.ev, X, {"scout"})
        /\ NonePositive(last.ev, X, {"scout"})
        /\ \E k \in JumpsInto(last.ev, Y) :
            /\ last.ev[k].pair[1] # X
            /\ last.ev[k].after[<<X, Y>>] # last.ev[k].before[<<X, Y>>]

-----------------------------------------------------------------------------
(* C4 *)

\* C4: in every jump exactly one sell is made, first, and at most one buy;
\* the buy is made only if the sell answered a result; the jump returns
\* True exactly when both answered a result; a jump that returns False
\* leaves the Ratio Store as it was.
C4_JumpLegs ==
    InPass =>
        \A k \in Jumps :
            LET legs == LegsOf(last.ev, k)
                sells == {i \in 1..Len(legs) : legs[i].e = "sell"}
                buys == {i \in 1..Len(legs) : legs[i].e = "buy"}
            IN  /\ sells = {1}
                /\ Cardinality(buys) <= 1
                /\ buys # {} => legs[1].result # None
                /\ last.ev[k].ret <=>
                    (legs[1].result # None /\ buys # {}
                        /\ \A i \in buys : legs[i].result # None)
                /\ ~last.ev[k].ret => last.ev[k].after = last.ev[k].before
                /\ \A i \in 1..Len(legs) : legs[i].coin = last.ev[k].pair[i]

\* a jump whose sell answered a result and whose buy did not
C4_Witness ==
    /\ InPass
    /\ \E k \in Jumps :
        /\ ~last.ev[k].ret
        /\ Len(LegsOf(last.ev, k)) = 2
        /\ LegsOf(last.ev, k)[1].result # None

-----------------------------------------------------------------------------
(* C5 *)

\* the account holds bridge currency and no tracked coin
OnlyBridge == balance[BRIDGE] > 0 /\ \A c \in CoinSet : balance[c] = 0

HoldsAsset == \E c \in CoinSet : balance[c] > 0

\* C5 as stated: whenever the account holds only bridge currency, scout
\* passes eventually deploy it into a tracked coin.
C5_Original == OnlyBridge ~> HoldsAsset

\* C5 as amended: a scout pass that starts with only bridge currency makes
\* no jump, and it ends holding a tracked coin exactly when its Bridge
\* Rebalance Check made a buy that answered a result; otherwise the
\* balances are what they were, and the account still holds only bridge.
\* The check makes no buy of a coin whose minimum notional the bridge
\* balance does not exceed.
C5_DeployedOnlyByBridgeBuy ==
    [][(OnlyBridge /\ last'.op = "scout") =>
        /\ Kinds(last'.ev, "jump") = {}
        /\ HoldsAsset' <=>
            \E k \in BridgeBuys(last'.ev) : last'.ev[k].result # None
        /\ ~HoldsAsset' => balance' = balance
        /\ \A k \in BridgeBuys(last'.ev) :
            RLess(get_min_notional(last'.ev[k].coin), Float(balance[BRIDGE]))]_vars

\* a pass that ran its Bridge Rebalance Check, traded nothing and ended
\* holding only bridge currency
C5_Witness ==
    /\ InPass
    /\ OnlyBridge
    /\ Kinds(last.ev, "sell") = {}
    /\ Kinds(last.ev, "bridge_balance") # {}

-----------------------------------------------------------------------------
(* C6 *)

\* C6: no buy is made by bridge_scout when the bridge balance it read is
\* below the minimum notional of the coin bought.
C6_NoBuyBelowMinNotional ==
    InPass =>
        \A k \in BridgeBuys(last.ev) :
            \A b \in Kinds(last.ev, "bridge_balance") :
                ~RLess(Float(last.ev[b].value), get_min_notional(last.ev[k].coin))

\* a Bridge Rebalance Check that read a balance below the minimum notional,
\* found a coin without a positive score and bought nothing
C6_Witness ==
    /\ InPass
    /\ \E b \in Kinds(last.ev, "bridge_balance") :
        /\ \E c \in CoinSet : RLess(Float(last.ev[b].value), get_min_notional(c))
        /\ last.ev[b].value = balance[BRIDGE]
    /\ \E k \in Kinds(last.ev, "ratios") :
        /\ last.ev[k].by = "bridge_scout"
        /\ ~last.ev[k].raised
        /\ last.ev[k].ratio_dict # <<>>
        /\ \A i \in 1..Len(last.ev[k].ratio_dict) :
            ~RLess(Zero, last.ev[k].ratio_dict[i].score)
    /\ BridgeBuys(last.ev) = {}

-----------------------------------------------------------------------------
(* C7 *)

\* C7 as stated: every buy of the pass that answered a result, by a jump or
\* by bridge_scout, is followed before the pass returns by an update of the
\* thresholds of the coin bought against the price of that result.
C7_Original ==
    InPass =>
        \A k \in Kinds(last.ev, "buy") :
            last.ev[k].result # None =>
                \E j \in Kinds(last.ev, "update") :
                    /\ j > k
                    /\ last.ev[j].coin = last.ev[k].coin
                    /\ last.ev[j].price = last.ev[k].result[1]

\* the Ratio Store the jumps of a pass leave, from the store it started with
StoreAfterJumps(store, ev) ==
    IF Kinds(ev, "jump") = {} THEN store ELSE ev[Last(Kinds(ev, "jump"))].after

\* C7 as amended: the buy of a jump that answered a result is followed at
\* once by the update of the thresholds of the coin bought against the price
\* of that result, which every pair into that coin with a priced from-coin
\* then holds; the buy of bridge_scout updates nothing: the store a pass
\* leaves is the one its last jump left.
C7_RecalibratedAfterJumpOnly ==
    [][last'.op = "scout" =>
        /\ \A k \in Kinds(last'.ev, "buy") :
            (last'.ev[k].by = "transaction_through_bridge" /\ last'.ev[k].result # None)
            => /\ last'.ev[k + 1].e = "update"
               /\ last'.ev[k + 1].coin = last'.ev[k].coin
               /\ last'.ev[k + 1].price = last'.ev[k].result[1]
               /\ last'.ev[k + 2].e = "jump"
               /\ last'.ev[k + 2].ret
               /\ \A p \in Pairs :
                    (p[2] = last'.ev[k].coin /\ last'.ev[1].t[p[1]] # None)
                    => last'.ev[k + 2].after[p]
                        = RDiv(last'.ev[1].t[p[1]], last'.ev[k].result[1])
        /\ \A k \in BridgeBuys(last'.ev) :
            \A j \in Kinds(last'.ev, "update") : j < k
        /\ ratio' = StoreAfterJumps(ratio, last'.ev)]_vars

\* a pass whose bridge_scout bought a coin, after which a pair into that
\* coin does not hold its from-coin's price divided by the price of the buy
C7_Witness ==
    /\ InPass
    /\ \E k \in BridgeBuys(last.ev) :
        /\ last.ev[k].result # None
        /\ \E t \in Kinds(last.ev, "tickers") :
            /\ t > 1
            /\ \E p \in Pairs :
                /\ p[2] = last.ev[k].coin
                /\ last.ev[t].t[p[1]] # None
                /\ ratio[p] # None
                /\ ratio[p] # RDiv(last.ev[t].t[p[1]], last.ev[k].result[1])

-----------------------------------------------------------------------------
(* C8 *)

\* C8 as stated: a pass that meets a pair whose ratio is None skips it and
\* goes on; no pass ends with an error raised by _get_ratios.
C8_Original ==
    InPass => last.status # "raise"

-----------------------------------------------------------------------------
(* C9 *)

\* C9 as stated: a pass fetches exactly one snapshot.
C9_Original ==
    InPass => Cardinality(Kinds(last.ev, "tickers")) = 1

\* every record of the _get_ratios calls made by one caller carries the
\* prices of the snapshot t
UsesSnapshot(ev, by, t) ==
    \A k \in Kinds(ev, "ratios") :
        ev[k].by = by =>
            \A i \in 1..Len(ev[k].ratio_dict) :
                /\ ev[k].ratio_dict[i].pair[1] = ev[k].coin
                /\ ev[k].ratio_dict[i].coin_price = t[ev[k].coin]
                /\ ev[k].ratio_dict[i].optional_coin_price
                    = t[ev[k].ratio_dict[i].pair[2]]

\* C9 as amended: a pass fetches one snapshot when it starts, which the
\* per-asset loop and the recalibration after a jump use; when the loop
\* runs to its end, bridge_scout fetches a second snapshot, which its own
\* comparisons use; no pass fetches more than two.
C9_OneSnapshotPerLoop ==
    InPass =>
        LET fetched == Kinds(last.ev, "tickers")
            entered == Kinds(last.ev, "bridge_balance")
        IN  /\ 1 \in fetched
            /\ Cardinality(fetched) <= 2
            /\ \A k \in fetched : k = 1 \/ k - 1 \in entered
            /\ \A b \in entered : b + 1 \in fetched
            /\ entered # {} <=>
                /\ \A k \in Kinds(last.ev, "abort") : last.ev[k].by # "scout"
                /\ \A k \in Kinds(last.ev, "ratios") :
                    last.ev[k].by = "scout" => ~last.ev[k].raised
            /\ UsesSnapshot(last.ev, "scout", PassTickers)
            /\ \A k \in Jumps : last.ev[k].ret =>
                \A p \in Pairs :
                    (p[2] = last.ev[k].pair[2] /\ PassTickers[p[1]] # None)
                    => last.ev[k].after[p] = RDiv(PassTickers[p[1]], FillOf(last.ev, k))
            /\ \A k \in fetched : k > 1 => UsesSnapshot(last.ev, "bridge_scout", last.ev[k].t)

\* a pass whose bridge_scout fetched a snapshot that differs from the first
\* and compared a price that is not the first snapshot's
C9_Witness ==
    /\ InPass
    /\ \E k \in Kinds(last.ev, "tickers") :
        /\ k > 1
        /\ last.ev[k].t # PassTickers
        /\ \E r \in Kinds(last.ev, "ratios") :
            /\ last.ev[r].by = "bridge_scout"
            /\ \E i \in 1..Len(last.ev[r].ratio_dict) :
                last.ev[r].ratio_dict[i].optional_coin_price
                    # PassTickers[last.ev[r].ratio_dict[i].pair[2]]

-----------------------------------------------------------------------------
(* C10 *)

\* C10: a call of initialize_trade_thresholds that follows another one and
\* is answered the same snapshot leaves every ratio as it is.
C10_SecondCallChangesNothing ==
    [][(/\ last.op = "initialize_trade_thresholds"
        /\ last'.op = "initialize_trade_thresholds"
        /\ last'.ev[1].t = last.ev[1].t)
       => ratio' = ratio]_vars

\* a second call answered the same snapshot as the first, which set some
\* ratios and left others unset
C10_Witness ==
    /\ last.op = "initialize_trade_thresholds"
    /\ last.prev.op = "initialize_trade_thresholds"
    /\ last.prev.same
    /\ \E p \in Pairs : ratio[p] # None
    /\ \E p \in Pairs : ratio[p] = None

-----------------------------------------------------------------------------
(* C11 *)

\* the Ratio Store when the jump whose event is at position k was called: what
\* the jump before it left, or the store the pass started with
StoreBefore(store, ev, k) ==
    LET earlier == {j \in Kinds(ev, "jump") : j < k}
    IN  IF earlier = {} THEN store ELSE ev[Last(earlier)].after

\* C11: the Ratio Store changes only in initialize_trade_thresholds or in a
\* scout pass, and in a pass only by a jump whose buy answered a result:
\* every jump finds the store as the jump before it left it (or as the pass
\* found it), the pass leaves it as its last jump left it, and a jump that
\* changed it made a buy that answered a result; _get_ratios, a failed sell,
\* a failed buy, the abort of a pass and bridge_scout write nothing.
C11_WrittenOnlyAfterConfirmedBuy ==
    [][/\ ratio' # ratio => last'.op \in {"initialize_trade_thresholds", "scout"}
       /\ last'.op = "scout" =>
            /\ ratio' = StoreAfterJumps(ratio, last'.ev)
            /\ \A k \in Kinds(last'.ev, "jump") :
                /\ last'.ev[k].before = StoreBefore(ratio, last'.ev, k)
                /\ last'.ev[k].after # last'.ev[k].before =>
                    /\ last'.ev[k].ret
                    /\ \E b \in Kinds(last'.ev, "buy") :
                        /\ StoreBefore(ratio, last'.ev, b) = last'.ev[k].before
                        /\ b < k
                        /\ last'.ev[b].by = "transaction_through_bridge"
                        /\ last'.ev[b].coin = last'.ev[k].pair[2]
                        /\ last'.ev[b].result # None]_vars

\* a pass that aborted after one of its jumps had changed the store
C11_Witness ==
    /\ InPass
    /\ \E k, a \in 1..Len(last.ev) :
        /\ k < a
        /\ last.ev[k].e = "jump" /\ last.ev[k].after # last.ev[k].before
        /\ last.ev[a].e = "abort" /\ last.ev[a].by = "scout"

-----------------------------------------------------------------------------
(* C12 *)

\* the position in db.get_coins() of the coin of an event
IndexOf(coin) == CHOOSE i \in 1..Len(Coins) : Coins[i] = coin

\* the events of the per-asset loop that name the coin they are about
LoopEvents(ev) ==
    {k \in 1..Len(ev) :
        \/ ev[k].e \in {"skip", "abort"} /\ (ev[k].e = "abort" => ev[k].by = "scout")
        \/ ev[k].e = "ratios" /\ ev[k].by = "scout"}

\* C12: when the per-asset loop of a pass reaches a coin whose price is
\* missing from the snapshot, the pass returns at once: the abort is its
\* last event, the coin is the first one in iteration order without a price,
\* only coins before it were looked at, bridge_scout is not run, and the
\* Ratio Store holds what the last jump before the abort left. A pass whose
\* snapshot lacks a price ends with that abort unless an error ended it
\* before the loop reached the coin.
C12_AbortedAtMissingPrice ==
    [][last'.op = "scout" =>
        LET ev == last'.ev
            missing == {i \in 1..Len(Coins) : ev[1].t[Coins[i]] = None}
            aborts == {k \in Kinds(ev, "abort") : ev[k].by = "scout"}
        IN  /\ \A a \in aborts :
                /\ a = Len(ev)
                /\ last'.status = "return"
                /\ IndexOf(ev[a].coin) \in missing
                /\ \A i \in missing : IndexOf(ev[a].coin) <= i
                /\ \A k \in LoopEvents(ev) : k < a => IndexOf(ev[k].coin) < IndexOf(ev[a].coin)
                /\ \A k \in Kinds(ev, "jump") : IndexOf(ev[k].pair[1]) < IndexOf(ev[a].coin)
                /\ Kinds(ev, "bridge_balance") = {}
                /\ ratio' = StoreBefore(ratio, ev, a)
            /\ (missing # {} /\ last'.status # "raise") => aborts # {}]_vars

\* a pass that aborted at a coin while a later coin was worth scouting
C12_Witness ==
    /\ InPass
    /\ last.ev[Len(last.ev)].e = "abort"
    /\ last.ev[Len(last.ev)].by = "scout"
    /\ \E j \in 1..Len(Coins) :
        /\ j > IndexOf(last.ev[Len(last.ev)].coin)
        /\ PassTickers[Coins[j]] # None
        /\ ~BelowMinNotional(Coins[j], PassTickers[Coins[j]], balance[Coins[j]])

-----------------------------------------------------------------------------
(* C13 *)

\* the per-asset loop of the pass ran to its end: it neither returned at a
\* missing price nor was left by an error
LoopCompleted(ev) ==
    /\ \A k \in Kinds(ev, "abort") : ev[k].by # "scout"
    /\ \A k \in Kinds(ev, "ratios") : ev[k].by = "scout" => ~ev[k].raised

\* C13: a pass whose per-asset loop ran to its end runs bridge_scout exactly
\* once, after every event of the loop (skips, scores, sells, buys and
\* jumps, whatever the jumps returned); a pass whose loop did not run to
\* its end does not run it.
C13_BridgeScoutOnceAfterLoop ==
    InPass =>
        LET entered == Kinds(last.ev, "bridge_balance")
        IN  /\ LoopCompleted(last.ev) => Cardinality(entered) = 1
            /\ ~LoopCompleted(last.ev) => entered = {}
            /\ \A b \in entered : \A k \in 1..Len(last.ev) :
                IF k < b
                THEN /\ last.ev[k].e \in {"tickers", "balance", "skip", "ratios", "sell",
                                          "buy", "update", "jump"}
                     /\ last.ev[k].e \in {"ratios", "sell", "buy"} =>
                            last.ev[k].by \in {"scout", "transaction_through_bridge"}
                ELSE k > b =>
                     /\ last.ev[k].e \in {"tickers", "ratios", "buy", "abort"}
                     /\ last.ev[k].e \in {"ratios", "buy", "abort"} =>
                            last.ev[k].by = "bridge_scout"

\* a pass in which one jump returned True and another returned False, and
\* that ran bridge_scout after them
C13_Witness ==
    /\ InPass
    /\ \E j, k \in Jumps : last.ev[j].ret /\ ~last.ev[k].ret
    /\ \E b \in Kinds(last.ev, "bridge_balance") : \A k \in Jumps : k < b

-----------------------------------------------------------------------------
(* C14 *)

\* the snapshot in use when the event at position k was recorded
SnapshotOf(ev, k) == ev[Last({t \in Kinds(ev, "tickers") : t < k})].t

\* the call of _get_ratios recorded at position k returned one score for
\* each pair from its coin whose counterpart is priced, and for no other
\* pair, each score being
\*   coin_price / optional_coin_price
\*     - fee * multiplier * (coin_price / optional_coin_price) - stored ratio
ScoresExactly(ev, k) ==
    LET t == SnapshotOf(ev, k)
        d == ev[k].ratio_dict
    IN  /\ {d[i].pair : i \in 1..Len(d)}
                = {p \in Pairs : p[1] = ev[k].coin /\ t[p[2]] # None}
        /\ \A i, j \in 1..Len(d) : d[i].pair = d[j].pair => i = j
        /\ \A i \in 1..Len(d) :
            LET raw == RDiv(t[ev[k].coin], t[d[i].pair[2]])
            IN  d[i].score =
                    RSub(RSub(raw, RMul(RMul(SCOUT_TRANSACTION_FEE, SCOUT_MULTIPLIER), raw)),
                         d[i].ratio)

\* C14 as stated: every call of _get_ratios returns a score for exactly the
\* pairs from its coin whose counterpart is priced in the snapshot, each
\* computed by the formula.
C14_Original ==
    InPass => \A k \in Kinds(last.ev, "ratios") : ScoresExactly(last.ev, k)

-----------------------------------------------------------------------------
(* C15 *)

\* the calls of _get_ratios made by the per-asset loop
LoopScores(ev) == {k \in Kinds(ev, "ratios") : ev[k].by = "scout"}

\* the jump called for the scores at position k: the first jump event after k
\* that comes before the next call of _get_ratios, if there is one
JumpsOf(ev, k) ==
    {j \in Kinds(ev, "jump") :
        /\ j > k
        /\ \A r \in Kinds(ev, "ratios") : ~(k < r /\ r < j)}

\* C15: for every coin the per-asset loop scored, a jump is called exactly
\* when some score _get_ratios returned is strictly positive (once, right
\* after the scores), and the pair handed to it is a pair from that coin
\* whose score no other candidate exceeds and that comes first among those
\* with that score; every jump of a pass is called for the scores of its
\* from-coin. A call of _get_ratios that raised returned no score.
C15_JumpsToFirstMaximum ==
    InPass =>
        /\ \A k \in LoopScores(last.ev) :
            LET d == IF last.ev[k].raised THEN <<>> ELSE last.ev[k].ratio_dict
                positive == {i \in 1..Len(d) : RLess(Zero, d[i].score)}
            IN  /\ positive = {} => JumpsOf(last.ev, k) = {}
                /\ positive # {} =>
                    /\ Cardinality(JumpsOf(last.ev, k)) = 1
                    /\ last.ev[k + 1].e = "sell"
                    /\ \A j \in JumpsOf(last.ev, k) : \E m \in positive :
                        /\ last.ev[j].pair = d[m].pair
                        /\ last.ev[j].pair[1] = last.ev[k].coin
                        /\ \A i \in 1..Len(d) : ~RLess(d[m].score, d[i].score)
                        /\ \A i \in 1..Len(d) : i < m => RLess(d[i].score, d[m].score)
        /\ \A j \in Jumps : \E k \in LoopScores(last.ev) : j \in JumpsOf(last.ev, k)

\* a pass in which two candidates of a coin tied for the greatest score,
\* which was positive, and the jump took the first of them
C15_Witness ==
    /\ InPass
    /\ \E k \in LoopScores(last.ev) :
        LET d == last.ev[k].ratio_dict
        IN  /\ Len(d) >= 2
            /\ d[1].score = d[2].score
            /\ RLess(Zero, d[1].score)
            /\ \E j \in JumpsOf(last.ev, k) : last.ev[j].pair = d[1].pair

-----------------------------------------------------------------------------
(* C16 *)

\* C16: a coin is skipped by the per-asset loop exactly when it is priced
\* and the balance the loop read for it, times its snapshot price, is below
\* the minimum notional; for a skipped coin the loop computes no scores and
\* the pass makes no jump from it, and the loop goes on with the next coin
\* in iteration order (or, after the last coin, with bridge_scout).
C16_SkippedBelowMinNotional ==
    InPass =>
        /\ \A k \in Kinds(last.ev, "balance") :
            LET coin == last.ev[k].coin
            IN  (/\ PassTickers[coin] # None
                 /\ RLess(RMul(PassTickers[coin], Float(last.ev[k].value)),
                          get_min_notional(coin)))
                <=> (k < Len(last.ev) /\ last.ev[k + 1].e = "skip")
        /\ \A k \in Kinds(last.ev, "skip") :
            LET coin == last.ev[k].coin
            IN  /\ last.ev[k - 1].e = "balance"
                /\ last.ev[k - 1].coin = coin
                /\ \A r \in LoopScores(last.ev) : last.ev[r].coin # coin
                /\ JumpsFrom(last.ev, coin) = {}
                /\ k < Len(last.ev)
                /\ IF IndexOf(coin) < Len(Coins)
                   THEN /\ last.ev[k + 1].e = "balance"
                        /\ last.ev[k + 1].coin = Coins[IndexOf(coin) + 1]
                   ELSE last.ev[k + 1].e = "bridge_balance"

\* a pass that skipped a coin of which the account held some, and scored the
\* next coin
C16_Witness ==
    /\ InPass
    /\ \E k \in Kinds(last.ev, "skip") :
        /\ last.ev[k - 1].value > 0
        /\ k + 2 <= Len(last.ev)
        /\ last.ev[k + 2].e = "ratios"
        /\ last.ev[k + 2].by = "scout"

-----------------------------------------------------------------------------
(* C17 *)

\* the calls of _get_ratios made by bridge_scout that returned
CheckScores(ev) ==
    {k \in Kinds(ev, "ratios") : ev[k].by = "bridge_scout" /\ ~ev[k].raised}

NoScorePositive(d) == \A i \in 1..Len(d) : ~RLess(Zero, d[i].score)

\* C17: one bridge_scout makes at most one buy. It goes through the coins
\* in iteration order; at the first coin none of whose scores is strictly
\* positive it ends, having made one buy of that coin if the bridge balance
\* it read exceeds the minimum notional of that coin and no buy otherwise;
\* a coin with a positive score is passed over and never bought.
C17_BuysFirstUnattractiveOnly ==
    InPass =>
        /\ Cardinality(BridgeBuys(last.ev)) <= 1
        /\ \A k \in CheckScores(last.ev) :
            LET coin == last.ev[k].coin
                can == \E b \in Kinds(last.ev, "bridge_balance") :
                          RLess(get_min_notional(coin), Float(last.ev[b].value))
            IN  IF NoScorePositive(last.ev[k].ratio_dict)
                THEN /\ \A j \in CheckScores(last.ev) : j <= k
                     /\ can => /\ Len(last.ev) = k + 1
                                /\ last.ev[k + 1].e = "buy"
                                /\ last.ev[k + 1].by = "bridge_scout"
                                /\ last.ev[k + 1].coin = coin
                     /\ ~can => Len(last.ev) = k
                ELSE /\ \A b \in BridgeBuys(last.ev) : last.ev[b].coin # coin
                     /\ IndexOf(coin) < Len(Coins) =>
                            /\ k < Len(last.ev)
                            /\ last.ev[k + 1].e \in {"ratios", "abort"}
                            /\ last.ev[k + 1].by = "bridge_scout"
                            /\ last.ev[k + 1].coin = Coins[IndexOf(coin) + 1]
                     /\ IndexOf(coin) = Len(Coins) => Len(last.ev) = k
        /\ \A b \in BridgeBuys(last.ev) :
            /\ b - 1 \in CheckScores(last.ev)
            /\ last.ev[b - 1].coin = last.ev[b].coin
            /\ NoScorePositive(last.ev[b - 1].ratio_dict)

\* a bridge_scout that ended without a buy at the first coin without a
\* positive score, its balance not exceeding the minimum notional, while a
\* later coin had no positive score either
C17_Witness ==
    /\ InPass
    /\ BridgeBuys(last.ev) = {}
    /\ \E k \in CheckScores(last.ev) :
        /\ k = Len(last.ev)
        /\ last.ev[k].ratio_dict # <<>>
        /\ NoScorePositive(last.ev[k].ratio_dict)
        /\ \E c \in CoinSet :
            /\ IndexOf(c) > IndexOf(last.ev[k].coin)
            /\ SnapshotOf(last.ev, k)[c] # None
            /\ \A p \in Pairs :
                (p[1] = c /\ SnapshotOf(last.ev, k)[p[2]] # None) =>
                    /\ ratio[p] # None
                    /\ ~RLess(Zero, Score(SnapshotOf(last.ev, k)[c],
                                          SnapshotOf(last.ev, k)[p[2]], ratio[p]))

-----------------------------------------------------------------------------
(* C18 *)

\* C18: one call of initialize_trade_thresholds answered the snapshot S sets
\* every pair that was unset, has both coins enabled and both coins priced
\* in S to the price of its from-coin divided by the price of its to-coin,
\* and leaves every other pair (unset with a disabled coin or a missing
\* price, or already set) as it was.
C18_InitializedFromSnapshot ==
    [][last'.op = "initialize_trade_thresholds" =>
        \A p \in Pairs :
            LET S == last'.ev[1].t
            IN  IF /\ ratio[p] = None
                   /\ enabled[p[1]] /\ enabled[p[2]]
                   /\ S[p[1]] # None /\ S[p[2]] # None
                THEN /\ ratio'[p] # None
                     /\ ratio'[p][1] * S[p[1]][2] * S[p[2]][1]
                            = ratio'[p][2] * S[p[1]][1] * S[p[2]][2]
                ELSE ratio'[p] = ratio[p]]_vars

\* a call that left a pair of enabled coins unset for a missing price and
\* kept for another pair a value an earlier call had set from other prices
C18_Witness ==
    /\ last.op = "initialize_trade_thresholds"
    /\ \E p \in Pairs :
        /\ ratio[p] = None
        /\ enabled[p[1]] /\ enabled[p[2]]
        /\ PassTickers[p[1]] = None \/ PassTickers[p[2]] = None
    /\ \E p \in Pairs :
        /\ ratio[p] # None
        /\ PassTickers[p[1]] # None /\ PassTickers[p[2]] # None
        /\ ratio[p] # RDiv(PassTickers[p[1]], PassTickers[p[2]])

-----------------------------------------------------------------------------
(* C19 *)

\* the jumps of the pass that returned True and whose buy filled at the
\* snapshot price of the coin bought
JumpsAtSnapshotPrice(ev) ==
    {k \in Kinds(ev, "jump") : ev[k].ret /\ FillOf(ev, k) = ev[1].t[ev[k].pair[2]]}

\* C19: after a jump into B that returned True and filled at B's snapshot
\* price, every pair X -> B with X priced in the snapshot scores strictly
\* below 0 under that snapshot; every score the per-asset loop computes
\* later in the pass for a pair into B is strictly negative, and no later
\* jump of the pass is into B.
C19_NoSecondJumpIntoTarget ==
    InPass =>
        \A k \in JumpsAtSnapshotPrice(last.ev) :
            LET B == last.ev[k].pair[2]
            IN  /\ \A X \in CoinSet \ {B} :
                    PassTickers[X] # None =>
                        RLess(Score(PassTickers[X], PassTickers[B],
                                    last.ev[k].after[<<X, B>>]), Zero)
                /\ \A r \in LoopScores(last.ev) :
                    r > k => \A i \in 1..Len(last.ev[r].ratio_dict) :
                        last.ev[r].ratio_dict[i].pair[2] = B =>
                            RLess(last.ev[r].ratio_dict[i].score, Zero)
                /\ \A j \in Jumps : j > k => last.ev[j].pair[2] # B

\* a pass in which a jump into B filled at B's snapshot price and a coin
\* scored later jumped to another coin, having scored its pair into B
C19_Witness ==
    /\ InPass
    /\ \E k \in JumpsAtSnapshotPrice(last.ev) :
        \E r \in LoopScores(last.ev) :
            /\ r > k
            /\ \E i \in 1..Len(last.ev[r].ratio_dict) :
                last.ev[r].ratio_dict[i].pair[2] = last.ev[k].pair[2]
            /\ JumpsOf(last.ev, r) # {}

====
